---- MODULE Spec2Model ----
(***************************************************************************)
(* Model of src/fetch_jobs.js (Daily Job Fetcher): one run of the script,  *)
(* from the configuration checks through the account lookup and the        *)
(* per-role loop to the report email and the process's exit status; and    *)
(* its pure functions applied on their own (SpecFunctions).                *)
(*                                                                         *)
(* JavaScript strings whose content the code inspects (titles, company     *)
(* names, posted-at texts, provider error messages) are sequences of       *)
(* one-character strings, so trim/toLowerCase/includes are computed.       *)
(* Texts the code only composes are records naming the literal and         *)
(* carrying the interpolated values.                                       *)
(***************************************************************************)
EXTENDS Integers, Sequences, FiniteSets, TLC

VARIABLES
    env,                \* process.env, fetch_jobs.js:272-276
    pc,                 \* "config" | "lookup" | "loop" | "done": position in fetchJobs
    roleQueries,        \* fetch_jobs.js:286
    accountResponse,    \* what the account endpoint answers in this run
    totalSearchesLeft,  \* fetch_jobs.js:293 (0 until assigned)
    remainingSearches,  \* fetch_jobs.js:294 (0 until assigned)
    index,              \* fetch_jobs.js:301
    sections,           \* fetch_jobs.js:296
    hasAnyPosting,      \* fetch_jobs.js:297
    quotaTriggered,     \* fetch_jobs.js:298
    quotaMessageSent,   \* fetch_jobs.js:299
    searchLog,          \* the fetch(serpUrl) calls made, with their responses
    emails,             \* the resend.emails.send calls made, with their outcome
    thrown,             \* the error fetchJobs rejects with (NoError: none)
    accountCalls,       \* the number of fetch(accountUrl) calls made
    exit,               \* the status the process ended with (<< >> while it runs)
    clock,              \* the system clock and time zone that new Date() reads
    call                \* a function of the module applied on its own (NoCall: none)

vars == << env, pc, roleQueries, accountResponse, totalSearchesLeft, remainingSearches,
           index, sections, hasAnyPosting, quotaTriggered, quotaMessageSent,
           searchLog, emails, thrown, accountCalls, exit, clock, call >>

\* Bounds of the model.
MaxRoles == 3
MaxQuota == 3
MaxJobs == 3
MaxQueryLen == 4
MaxOffset == 2
MaxApplications == 2

-----------------------------------------------------------------------------
(* JavaScript string primitives on sequences of characters *)

UpperCase == << "A","B","C","D","E","F","G","H","I","J","K","L","M",
                "N","O","P","Q","R","S","T","U","V","W","X","Y","Z" >>
LowerCase == << "a","b","c","d","e","f","g","h","i","j","k","l","m",
                "n","o","p","q","r","s","t","u","v","w","x","y","z" >>
Digits == << "0","1","2","3","4","5","6","7","8","9" >>
WhiteSpace == { " ", "\t", "\n" }

Range(s) == { s[i] : i \in DOMAIN s }

toLowerCaseChar(c) ==
    IF c \in Range(UpperCase)
    THEN LowerCase[CHOOSE i \in DOMAIN UpperCase : UpperCase[i] = c]
    ELSE c

toLowerCase(s) == [i \in DOMAIN s |-> toLowerCaseChar(s[i])]

RECURSIVE trimStart(_)
trimStart(s) ==
    IF s # << >> /\ Head(s) \in WhiteSpace THEN trimStart(Tail(s)) ELSE s

RECURSIVE trimEnd(_)
trimEnd(s) ==
    IF s # << >> /\ s[Len(s)] \in WhiteSpace
    THEN trimEnd(SubSeq(s, 1, Len(s) - 1))
    ELSE s

trim(s) == trimEnd(trimStart(s))

\* String.prototype.includes
includes(s, needle) ==
    \E i \in 1..(Len(s) - Len(needle) + 1) :
        SubSeq(s, i, i + Len(needle) - 1) = needle

\* /\bword\b/.test(s) for a word made of word characters only
IsWordChar(c) == c \in Range(UpperCase) \cup Range(LowerCase) \cup Range(Digits) \cup {"_"}

testWord(s, word) ==
    \E i \in 1..(Len(s) - Len(word) + 1) :
        /\ SubSeq(s, i, i + Len(word) - 1) = word
        /\ (i = 1 \/ ~IsWordChar(s[i - 1]))
        /\ (i + Len(word) > Len(s) \/ ~IsWordChar(s[i + Len(word)]))

\* s.replace(/[.,]/g, " ")
replaceDotComma(s) == [i \in DOMAIN s |-> IF s[i] \in {".", ","} THEN " " ELSE s[i]]

-----------------------------------------------------------------------------
(* JSON values of the account response and Number() *)

JsUndefined == [type |-> "undefined"]
JsNull == [type |-> "null"]
JsNumber(n) == [type |-> "number", value |-> n]
JsString(s) == [type |-> "string", chars |-> s]
JsBoolean(b) == [type |-> "boolean", bool |-> b]

NaN == [nan |-> TRUE, n |-> 0]
Finite(n) == [nan |-> FALSE, n |-> n]

DigitValue(c) == (CHOOSE i \in DOMAIN Digits : Digits[i] = c) - 1

RECURSIVE DecimalValue(_)
DecimalValue(s) ==
    IF s = << >> THEN 0
    ELSE 10 * DecimalValue(SubSeq(s, 1, Len(s) - 1)) + DigitValue(s[Len(s)])

\* StringToNumber: blank is 0, an optionally signed decimal integer is its value,
\* anything else (of the texts modelled here) is NaN
StringToNumber(s) ==
    LET t == trim(s)
        body == IF t # << >> /\ Head(t) \in {"-", "+"} THEN Tail(t) ELSE t
    IN  IF t = << >> THEN Finite(0)
        ELSE IF body # << >> /\ Range(body) \subseteq Range(Digits)
             THEN Finite(IF Head(t) = "-" THEN 0 - DecimalValue(body) ELSE DecimalValue(body))
             ELSE NaN

\* Number(value)
Number(v) ==
    CASE v.type = "undefined" -> NaN
      [] v.type = "null"      -> Finite(0)
      [] v.type = "number"    -> Finite(v.value)
      [] v.type = "boolean"   -> Finite(IF v.bool THEN 1 ELSE 0)
      [] v.type = "string"    -> StringToNumber(v.chars)

NumberIsFinite(x) == ~x.nan

\* a ?? b
Coalesce(a, b) == IF a.type \in {"undefined", "null"} THEN b ELSE a

-----------------------------------------------------------------------------
(* Pure functions of fetch_jobs.js *)

QUOTA_EXCEEDED_CODE == "SERP_QUOTA_EXCEEDED"

\* new Date(postedAt) compared with new Date() by year, month and day of month:
\* the posting carries the local calendar day its text parses to
\* ("Invalid Date" when getTime() is NaN).
\* Instants are whole hours since 2025-01-01T00:00Z.  clock.now is the current
\* instant and clock.offset the process's offset from UTC in hours (east positive).
InvalidDate == [valid |-> FALSE, time |-> 0]
DateAt(time) == [valid |-> TRUE, time |-> time]

IsDigits(s) == \A i \in DOMAIN s : s[i] \in Range(Digits)

\* The calendar of 2025, the year of every timestamp the model holds.
DaysInMonth == << 31, 28, 31, 30, 31, 30, 31, 31, 30, 31, 30, 31 >>

RECURSIVE DaysBeforeMonth(_)
DaysBeforeMonth(month) ==
    IF month = 1 THEN 0 ELSE DaysBeforeMonth(month - 1) + DaysInMonth[month - 1]

\* "YYYY-MM-DD": the day's number in the year, counted from 0 (-1: not a date)
DayOfIsoDate(s) ==
    IF /\ Len(s) = 10 /\ s[5] = "-" /\ s[8] = "-"
       /\ SubSeq(s, 1, 4) = << "2","0","2","5" >>
       /\ IsDigits(SubSeq(s, 6, 7)) /\ IsDigits(SubSeq(s, 9, 10))
    THEN LET month == DecimalValue(SubSeq(s, 6, 7))
             day == DecimalValue(SubSeq(s, 9, 10))
         IN  IF month \in 1..12 /\ day >= 1 /\ day <= DaysInMonth[month]
             THEN DaysBeforeMonth(month) + day - 1
             ELSE 0 - 1
    ELSE 0 - 1

\* "THH:MM:SS": the hour (-1: not a time)
HourOfIsoTime(s) ==
    IF /\ Len(s) = 9 /\ s[1] = "T" /\ s[4] = ":" /\ s[7] = ":"
       /\ IsDigits(SubSeq(s, 2, 3)) /\ IsDigits(SubSeq(s, 5, 6)) /\ IsDigits(SubSeq(s, 8, 9))
       /\ DecimalValue(SubSeq(s, 2, 3)) < 24
       /\ DecimalValue(SubSeq(s, 5, 6)) < 60
       /\ DecimalValue(SubSeq(s, 8, 9)) < 60
    THEN DecimalValue(SubSeq(s, 2, 3))
    ELSE 0 - 1

\* new Date(postedAt) for the ISO forms: a date alone is midnight UTC, a date
\* and time without zone is local time, a trailing Z is UTC; any other text of
\* the model is an Invalid Date.
ParsedDate(postedAt) ==
    IF Len(postedAt) = 10
    THEN IF DayOfIsoDate(postedAt) >= 0
         THEN DateAt(DayOfIsoDate(postedAt) * 24)
         ELSE InvalidDate
    ELSE IF Len(postedAt) \in {19, 20}
    THEN LET day == DayOfIsoDate(SubSeq(postedAt, 1, 10))
             hour == HourOfIsoTime(SubSeq(postedAt, 11, 19))
         IN  IF day < 0 \/ hour < 0 THEN InvalidDate
             ELSE IF Len(postedAt) = 19 THEN DateAt(day * 24 + hour - clock.offset)
             ELSE IF postedAt[20] = "Z" THEN DateAt(day * 24 + hour)
             ELSE InvalidDate
    ELSE InvalidDate

\* Faulty variant: the UTC fields are compared (getUTCDate and the like).
LocalDate_Utc(time) == time \div 24

\* getFullYear(), getMonth(), getDate() of an instant: its calendar day in the
\* process's time zone, as the number of days since 2025-01-01
LocalDate(time) == (time + clock.offset) \div 24

relativePatterns ==
    { << "m","i","n","u","t","e" >>, << "m","i","n","u","t","e","s" >>,
      << "m","i","n" >>, << "m","i","n","s" >>,
      << "h","o","u","r" >>, << "h","o","u","r","s" >>,
      << "h","r" >>, << "h","r","s" >>,
      << "t","o","d","a","y" >> }

isPostedToday(postedAt) ==
    IF postedAt = << >> THEN FALSE
    ELSE
        LET normalized == trim(toLowerCase(postedAt))
            sanitized == replaceDotComma(normalized)
        IN  IF \/ includes(normalized, << "j","u","s","t"," ","p","o","s","t","e","d" >>)
               \/ includes(normalized, << "j","u","s","t"," ","n","o","w" >>)
            THEN TRUE
            ELSE IF \E pattern \in relativePatterns : testWord(sanitized, pattern)
            THEN TRUE
            ELSE IF ParsedDate(postedAt).valid
            THEN LocalDate(ParsedDate(postedAt).time) = LocalDate(clock.now)
            ELSE FALSE

\* Faulty variant: the letter case is kept.
normalizeText_CaseKept(value) == trim(value)

\* (value || "").trim().toLowerCase(); an absent field is the empty string
normalizeText(value) == toLowerCase(trim(value))

DedupKey(job) == normalizeText(job.title) \o << "|" >> \o normalizeText(job.company_name)

RECURSIVE removeDuplicatesFrom(_, _, _)
removeDuplicatesFrom(jobs, seen, output) ==
    IF jobs = << >> THEN output
    ELSE LET job == Head(jobs)
             key == DedupKey(job)
         IN  IF key \notin seen
             THEN removeDuplicatesFrom(Tail(jobs), seen \cup {key}, Append(output, job))
             ELSE removeDuplicatesFrom(Tail(jobs), seen, output)

removeDuplicates(jobs) == removeDuplicatesFrom(jobs, {}, << >>)

\* Array.prototype.filter
RECURSIVE filterPostedToday(_)
filterPostedToday(jobs) ==
    IF jobs = << >> THEN << >>
    ELSE IF isPostedToday(Head(jobs).posted_at)
         THEN << Head(jobs) >> \o filterPostedToday(Tail(jobs))
         ELSE filterPostedToday(Tail(jobs))

\* String.prototype.split(",")
RECURSIVE splitComma(_)
splitComma(s) ==
    IF \A i \in DOMAIN s : s[i] # ","
    THEN << s >>
    ELSE LET at == CHOOSE i \in DOMAIN s :
                        s[i] = "," /\ \A j \in 1..(i - 1) : s[j] # ","
         IN  << SubSeq(s, 1, at - 1) >> \o splitComma(SubSeq(s, at + 1, Len(s)))

\* Faulty variant: the entries are filtered but not trimmed.
RECURSIVE trimAndKeepNonEmpty_Untrimmed(_)
trimAndKeepNonEmpty_Untrimmed(entries) ==
    IF entries = << >> THEN << >>
    ELSE IF Len(Head(entries)) > 0
         THEN << Head(entries) >> \o trimAndKeepNonEmpty_Untrimmed(Tail(entries))
         ELSE trimAndKeepNonEmpty_Untrimmed(Tail(entries))

\* .map(role => role.trim()).filter(role => role.length > 0)
RECURSIVE trimAndKeepNonEmpty(_)
trimAndKeepNonEmpty(entries) ==
    IF entries = << >> THEN << >>
    ELSE LET role == trim(Head(entries))
         IN  IF Len(role) > 0
             THEN << role >> \o trimAndKeepNonEmpty(Tail(entries))
             ELSE trimAndKeepNonEmpty(Tail(entries))

\* An unset variable and the empty string are both the empty sequence (both falsy).
parseRoleQueries(rawRoles) ==
    IF rawRoles = << >> THEN << >>
    ELSE trimAndKeepNonEmpty(splitComma(rawRoles))

NoError == [message |-> [line |-> "none"], code |-> "none"]
Error(message) == [message |-> message, code |-> "none"]

createQuotaExceededError(message) == [message |-> message, code |-> QUOTA_EXCEEDED_CODE]

isQuotaExceededError(error) == error # NoError /\ error.code = QUOTA_EXCEEDED_CODE

isQuotaErrorMessage(message) ==
    IF message = << >> THEN FALSE
    ELSE LET normalized == toLowerCase(message)
         IN  \/ includes(normalized, << "q","u","o","t","a" >>)
             \/ includes(normalized, << "l","i","m","i","t" >>)
             \/ includes(normalized, << "e","x","c","e","e","d","e","d" >>)

\* A section is the sequence of its lines (joined with "\n" in the source).
RoleLine(roleQuery) == [line |-> "Role: ", role |-> roleQuery]

JobBlock(job) ==
    [line |-> "Title/Company/Location/Posted/Apply", job |-> job,
     apply |-> IF job.apply_link = << >> THEN "Apply link unavailable" ELSE "link"]

formatRoleSection(roleQuery, jobs) ==
    IF Len(jobs) = 0
    THEN << RoleLine(roleQuery), [line |-> "No new postings published today."] >>
    ELSE << RoleLine(roleQuery) >> \o [i \in DOMAIN jobs |-> JobBlock(jobs[i])]

Undefined == [line |-> "undefined"]
TriggeredLine == [line |-> "Remaining roles were skipped to avoid extra API calls."]
SkippedLine == [line |-> "Skipped because the SerpAPI free tier limit was reached earlier today."]
DefaultLimitLine == [line |-> "SerpAPI free tier limit reached while running this search."]

formatQuotaSection(roleQuery, isTriggeredRole, details) ==
    IF isTriggeredRole
    THEN << RoleLine(roleQuery),
            IF details = Undefined THEN DefaultLimitLine ELSE details,
            TriggeredLine >>
    ELSE << RoleLine(roleQuery), SkippedLine >>

-----------------------------------------------------------------------------
(* The collaborators' answers *)

\* response.ok
ResponseOk(response) == response.status >= 200 /\ response.status <= 299

\* fetch() itself rejecting (DNS, connection reset, ...)
requestError == Error([line |-> "fetch failed"])
\* response.text() rejecting: the body stream cannot be read
bodyReadError == Error([line |-> "body stream could not be read"])
\* response.json() rejecting: the body is not JSON (or cannot be read)
jsonParseError == Error([line |-> "Unexpected token in JSON"])
\* resend.emails.send rejecting
sendError == Error([line |-> "resend.emails.send rejected"])

DeliveryOutcomes == { "delivered", "rejected" }

NoJson == [total_searches_left |-> JsUndefined, plan_searches_left |-> JsUndefined,
           searches_left |-> JsUndefined]

AccountAnswer(transport, status, body) ==
    [transport |-> transport, status |-> status, body |-> body, json |-> NoJson]

AccountJson(json) == [transport |-> "ok", status |-> 200, body |-> "json", json |-> json]

\* The account endpoint's answers of the main specification: every failure
\* kind, every quota in -1..MaxQuota in the first field, and the fallbacks.
AccountResponses ==
    { AccountAnswer("error", 0, "unreadable"),
      AccountAnswer("ok", 500, "text"),
      AccountAnswer("ok", 401, "unreadable"),
      AccountAnswer("ok", 200, "text"),
      AccountAnswer("ok", 200, "json") }
    \cup { AccountJson([NoJson EXCEPT !.total_searches_left = JsNumber(q)]) :
             q \in (0 - 1)..MaxQuota }
    \cup { AccountJson([NoJson EXCEPT !.total_searches_left = JsNull,
                                      !.plan_searches_left = JsNumber(1)]),
           AccountJson([NoJson EXCEPT !.searches_left = JsNull]),
           AccountJson([NoJson EXCEPT !.total_searches_left = JsString(<< "n","/","a" >>),
                                      !.plan_searches_left = JsNumber(1)]) }

\* Field values of the specification that explores the account parser.
AccountFieldValues ==
    { JsUndefined, JsNull, JsNumber(0), JsNumber(2),
      JsString(<< "n","/","a" >>), JsString(<< >>), JsString(<< " ","1" >>),
      JsBoolean(TRUE) }

AccountJsonResponses ==
    { AccountJson([total_searches_left |-> a, plan_searches_left |-> b, searches_left |-> c]) :
        a \in AccountFieldValues, b \in AccountFieldValues, c \in AccountFieldValues }

T_Dev == << "D","e","v" >>
T_dev == << " ","d","e","v"," " >>
T_Ops == << "O","p","s" >>
C_Acme == << "A","c","m","e" >>
C_ACME == << "A","C","M","E" >>

Job(title, company, postedAt, applyLink) ==
    [title |-> title, company_name |-> company, location |-> << "C","A" >>,
     posted_at |-> postedAt, apply_link |-> applyLink]

JobFresh == Job(T_Dev, C_Acme, << "3"," ","h","r"," ","a","g","o" >>, << "u" >>)
JobFreshCopy == Job(T_dev, C_ACME, << "T","o","d","a","y","." >>, << >>)
JobOld == Job(T_Ops, C_Acme, << "2"," ","w","e","e","k","s"," ","a","g","o" >>, << "u" >>)
JobDatedToday ==
    Job(T_Ops, C_ACME, << "2","0","2","5","-","0","1","-","1","5" >>, << >>)
JobDatedYesterday ==
    Job(T_Dev, C_ACME, << "2","0","2","5","-","0","1","-","1","4" >>, << >>)

JobsResultsSamples ==
    { << >>, << JobOld >>, << JobFresh, JobFreshCopy >>,
      << JobDatedToday, JobOld >>, << JobDatedYesterday >> }

ErrorTexts ==
    { << "O","v","e","r"," ","L","I","M","I","T" >>,
      << "Q","u","o","t","a" >>,
      << "B","a","d"," ","k","e","y" >> }

NoSearchJson == [error |-> << >>, error_code |-> 0, is_array |-> FALSE, jobs_results |-> << >>]

SearchAnswer(transport, status, body) ==
    [transport |-> transport, status |-> status, body |-> body, json |-> NoSearchJson]

SearchJson(json) == [transport |-> "ok", status |-> 200, body |-> "json", json |-> json]

SearchResponses ==
    { SearchAnswer("error", 0, "unreadable"),
      SearchAnswer("ok", 429, "text"),
      SearchAnswer("ok", 500, "text"),
      SearchAnswer("ok", 503, "unreadable"),
      SearchAnswer("ok", 200, "text"),
      SearchJson(NoSearchJson),
      \* a non-2xx answer whose JSON body names the quota: its body is never parsed
      [SearchJson([NoSearchJson EXCEPT !.error = << "Q","u","o","t","a" >>])
          EXCEPT !.status = 403] }
    \cup { SearchJson([NoSearchJson EXCEPT !.error = e, !.error_code = c]) :
             e \in ErrorTexts, c \in {0, 429} }
    \cup { SearchJson([NoSearchJson EXCEPT !.is_array = TRUE, !.jobs_results = jobs]) :
             jobs \in JobsResultsSamples }

-----------------------------------------------------------------------------
(* The asynchronous functions of fetch_jobs.js.  Each takes the collaborator's  *)
(* answer, the outcome a failure-notice delivery would have and the log of      *)
(* delivery calls so far, and yields what it returns or throws and the log.     *)

FailureNotice(details, outcome) ==
    [subject |-> "Daily job fetch failed", text |-> details, outcome |-> outcome]

\* Faulty variant: a rejected delivery is attempted a second time.
notifySerpFailure_Retries(resend, fromAddress, toAddress, details, outcome, log) ==
    IF ~resend \/ ~fromAddress \/ ~toAddress
    THEN [emails |-> log, raised |-> NoError]
    ELSE IF outcome = "rejected"
    THEN [emails |-> Append(Append(log, FailureNotice(details, outcome)),
                            FailureNotice(details, outcome)),
          raised |-> NoError]
    ELSE [emails |-> Append(log, FailureNotice(details, outcome)), raised |-> NoError]

\* Faulty variant: no try/catch around the send, a rejected delivery propagates.
notifySerpFailure_Rethrows(resend, fromAddress, toAddress, details, outcome, log) ==
    IF ~resend \/ ~fromAddress \/ ~toAddress
    THEN [emails |-> log, raised |-> NoError]
    ELSE [emails |-> Append(log, FailureNotice(details, outcome)),
          raised |-> IF outcome = "rejected" THEN sendError ELSE NoError]

\* The catch clause of notifySerpFailure: console.error, nothing rethrown.
notifySerpFailure(resend, fromAddress, toAddress, details, outcome, log) ==
    IF ~resend \/ ~fromAddress \/ ~toAddress
    THEN [emails |-> log, raised |-> NoError]
    ELSE [emails |-> Append(log, FailureNotice(details, outcome)), raised |-> NoError]

\* "await notifySerpFailure(...); throw error": the error thrown after the await,
\* unless the await itself raised.
ThrowAfterNotice(notice, error) ==
    [value |-> NaN, jobs |-> << >>,
     thrown |-> IF notice.raised # NoError THEN notice.raised ELSE error,
     emails |-> notice.emails]

ThrowNow(error, log) == [value |-> NaN, jobs |-> << >>, thrown |-> error, emails |-> log]

fetchRemainingSearches(resend, senderEmailAddress, toEmailAddress, response, outcome, log) ==
    IF response.transport = "error"
    THEN ThrowAfterNotice(
            notifySerpFailure(resend, senderEmailAddress, toEmailAddress,
                [line |-> "SerpAPI account lookup error: ", error |-> requestError.message],
                outcome, log),
            requestError)
    ELSE IF ~ResponseOk(response)
    THEN IF response.body = "unreadable"
         THEN ThrowNow(bodyReadError, log)
         ELSE ThrowAfterNotice(
                notifySerpFailure(resend, senderEmailAddress, toEmailAddress,
                    [line |-> "SerpAPI account endpoint responded with status ",
                     status |-> response.status],
                    outcome, log),
                Error([line |-> "SerpAPI account lookup failed with status ",
                       status |-> response.status]))
    ELSE IF response.body # "json"
    THEN ThrowNow(jsonParseError, log)
    ELSE
        LET json == response.json
            remaining == Number(Coalesce(Coalesce(json.total_searches_left,
                                                  json.plan_searches_left),
                                         json.searches_left))
            message == [line |-> "Unable to determine remaining SerpAPI searches from account response."]
        IN  IF ~NumberIsFinite(remaining)
            THEN ThrowAfterNotice(
                    notifySerpFailure(resend, senderEmailAddress, toEmailAddress,
                                      message, outcome, log),
                    Error(message))
            ELSE [value |-> remaining, jobs |-> << >>, thrown |-> NoError, emails |-> log]

fetchRoleResults(roleQuery, resend, senderEmailAddress, toEmailAddress, response, outcome, log) ==
    IF response.transport = "error"
    THEN ThrowAfterNotice(
            notifySerpFailure(resend, senderEmailAddress, toEmailAddress,
                [line |-> "SerpAPI request error for ", role |-> roleQuery,
                 error |-> requestError.message],
                outcome, log),
            requestError)
    ELSE IF response.status = 429
    THEN ThrowNow(createQuotaExceededError(
                    [line |-> "SerpAPI free tier limit reached while fetching ",
                     role |-> roleQuery]), log)
    ELSE IF ~ResponseOk(response)
    THEN IF response.body = "unreadable"
         THEN ThrowNow(bodyReadError, log)
         ELSE ThrowAfterNotice(
                notifySerpFailure(resend, senderEmailAddress, toEmailAddress,
                    [line |-> "SerpAPI responded with status ", role |-> roleQuery,
                     status |-> response.status],
                    outcome, log),
                Error([line |-> "SerpAPI request failed with status ",
                       status |-> response.status]))
    ELSE IF response.body # "json"
    THEN ThrowNow(jsonParseError, log)
    ELSE
        LET json == response.json
            errorDetails == [line |-> "SerpAPI error for ", role |-> roleQuery,
                             error |-> json.error, error_code |-> json.error_code]
        IN  IF json.error # << >>
            THEN IF isQuotaErrorMessage(json.error)
                 THEN ThrowNow(createQuotaExceededError(errorDetails), log)
                 ELSE ThrowAfterNotice(
                        notifySerpFailure(resend, senderEmailAddress, toEmailAddress,
                                          errorDetails, outcome, log),
                        Error(errorDetails))
            ELSE IF ~json.is_array
            THEN [value |-> NaN, jobs |-> << >>, thrown |-> NoError, emails |-> log]
            ELSE [value |-> NaN,
                  jobs |-> removeDuplicates(filterPostedToday(json.jobs_results)),
                  thrown |-> NoError, emails |-> log]

-----------------------------------------------------------------------------
(* fetchJobs *)

\* Truthiness of the client (new Resend(resendKey) is an object) and of the two
\* addresses handed to the notifier.
resend == TRUE
senderEmailAddress == env.SENDER_EMAIL_ADDRESS # << >>
toEmailAddress == env.TO_EMAIL_ADDRESS # << >>

AllRoles == << << "A" >>, << "B" >>, << "C" >>, << "D" >>, << "E" >>, << "F" >> >>
RoleLists == { SubSeq(AllRoles, 1, n) : n \in 1..MaxRoles }

\* The ROLE_QUERY text naming the given roles, written as in the README: "A, B".
RECURSIVE RoleQueryText(_)
RoleQueryText(roles) ==
    IF Len(roles) = 1 THEN roles[1]
    ELSE RoleQueryText(SubSeq(roles, 1, Len(roles) - 1)) \o << ",", " " >> \o roles[Len(roles)]

Setting == << "s" >>

CompleteEnv(roleQuery) ==
    [SERPAPI_KEY |-> Setting, RESEND_API_KEY |-> Setting,
     SENDER_EMAIL_ADDRESS |-> Setting, TO_EMAIL_ADDRESS |-> Setting,
     ROLE_QUERY |-> roleQuery]

OneRoleEnv == CompleteEnv(RoleQueryText(SubSeq(AllRoles, 1, 1)))

\* Environments the checks of lines 278-290 reject: each setting unset or empty in
\* turn, and a role list without a non-empty entry.
IncompleteEnvs ==
    { [OneRoleEnv EXCEPT ![k] = << >>] :
        k \in {"SERPAPI_KEY", "RESEND_API_KEY", "SENDER_EMAIL_ADDRESS",
               "TO_EMAIL_ADDRESS", "ROLE_QUERY"} }
    \cup { CompleteEnv(<< " ", ",", " " >>), CompleteEnv(<< "," >>), CompleteEnv(<< " " >>) }

Envs == { CompleteEnv(RoleQueryText(roles)) : roles \in RoleLists } \cup IncompleteEnvs

\* Faulty variant: the recipient is not checked.
MissingSettings_RecipientUnchecked(e) ==
    e.SERPAPI_KEY = << >> \/ e.RESEND_API_KEY = << >> \/ e.SENDER_EMAIL_ADDRESS = << >>

\* if (!serpKey || !resendKey || !senderEmailAddress || !toEmailAddress)
MissingSettings(e) ==
    \/ e.SERPAPI_KEY = << >>
    \/ e.RESEND_API_KEY = << >>
    \/ e.SENDER_EMAIL_ADDRESS = << >>
    \/ e.TO_EMAIL_ADDRESS = << >>

\* lines 278-290: the error the configuration checks throw (NoError: none)
ConfigError(e) ==
    IF MissingSettings(e)
    THEN Error([line |-> "One or more environment variables are missing"])
    ELSE IF e.ROLE_QUERY = << >>
    THEN Error([line |-> "ROLE_QUERY must be set with one or more comma-separated role queries"])
    ELSE IF Len(parseRoleQueries(e.ROLE_QUERY)) = 0
    THEN Error([line |-> "ROLE_QUERY must include at least one non-empty role query"])
    ELSE NoError

\* Faulty variant: the catch handler logs and lets the process end normally.
ExitStatus_NeverFails(error) == 0

\* fetchJobs().catch(err => { console.error(err); process.exit(1); })
ExitStatus(error) == IF error # NoError THEN 1 ELSE 0

\* Faulty variant: every iteration reads the first role.
RoleAt_First(roles, i) == roles[1]

\* const role = roleQueries[index]  (index counts from 0)
RoleAt(roles, i) == roles[i + 1]

\* Faulty variant: the guard lets a quota of exactly 0 through.
QuotaExhausted_Strict(remaining) == remaining < 0

\* Faulty variant: the last credit is never spent.
QuotaExhausted_OffByOne(remaining) == remaining <= 1

\* if (remainingSearches <= 0)
QuotaExhausted(remaining) == remaining <= 0

\* Faulty variant: every skipped role is treated as the first notice.
IsFirstQuotaNotice_Always(messageSent) == TRUE

\* const isFirstQuotaNotice = !quotaMessageSent
IsFirstQuotaNotice(messageSent) == ~messageSent

\* Faulty variant: the two explanations are swapped.
QuotaNoticeDetails_Swapped(isFirstQuotaNotice, total) ==
    IF isFirstQuotaNotice
    THEN IF total # 0
         THEN [line |-> "SerpAPI search credits are exhausted for today."]
         ELSE [line |-> "SerpAPI only had N search(es) available and they were used by earlier roles in this run.",
               n |-> total, plural |-> IF total = 1 THEN "" ELSE "es"]
    ELSE Undefined

QuotaNoticeDetails(isFirstQuotaNotice, total) ==
    IF isFirstQuotaNotice
    THEN IF total = 0
         THEN [line |-> "SerpAPI search credits are exhausted for today."]
         ELSE [line |-> "SerpAPI only had N search(es) available and they were used by earlier roles in this run.",
               n |-> total, plural |-> IF total = 1 THEN "" ELSE "es"]
    ELSE Undefined

\* Faulty variant: a search costs nothing.
RemainingAfterSearch_Unchanged(remaining) == remaining

\* remainingSearches -= 1
RemainingAfterSearch(remaining) == remaining - 1

\* Faulty variant: the catch branch leaves one credit.
RemainingAfterQuotaExceeded_One(remaining) == 1

\* Faulty variant: the catch branch leaves the counter as it was.
RemainingAfterQuotaExceeded_Kept(remaining) == remaining

\* remainingSearches = 0 in the quota-exceeded catch branch
RemainingAfterQuotaExceeded(remaining) == 0

\* Faulty variant: the quota flag is not consulted.
NothingToReport_IgnoresQuota(triggered, anyPosting) == ~anyPosting

\* if (!quotaTriggered && !hasAnyPosting)
NothingToReport(triggered, anyPosting) == ~triggered /\ ~anyPosting

Report(body, outcome) ==
    [subject |-> "Latest job postings", text |-> body, outcome |-> outcome]

InRoleLoop == pc = "loop" /\ index < Len(roleQueries)

\* No function is applied on its own.
NoCall == [fn |-> "none"]

\* 2025-01-15T12:00Z in a process running in UTC
Noon == [now |-> 14 * 24 + 12, offset |-> 0]

Start ==
    /\ pc = "config"
    /\ roleQueries = << >>
    /\ accountCalls = 0
    /\ exit = << >>
    /\ totalSearchesLeft = 0
    /\ remainingSearches = 0
    /\ index = 0
    /\ sections = << >>
    /\ hasAnyPosting = FALSE
    /\ quotaTriggered = FALSE
    /\ quotaMessageSent = FALSE
    /\ searchLog = << >>
    /\ emails = << >>
    /\ thrown = NoError

Init ==
    /\ Start
    /\ clock = Noon
    /\ call = NoCall
    /\ env \in Envs
    /\ accountResponse \in AccountResponses

\* The same run with one role and every combination of the three account fields.
InitAccount ==
    /\ Start
    /\ clock = Noon
    /\ call = NoCall
    /\ \/ env = OneRoleEnv /\ accountResponse \in AccountJsonResponses
       \/ env \in IncompleteEnvs /\ accountResponse = AccountJson(NoJson)

\* lines 272-290: a configuration check throws, and fetchJobs rejects with it
ConfigRejected ==
    /\ pc = "config"
    /\ ConfigError(env) # NoError
    /\ thrown' = ConfigError(env)
    /\ pc' = "done"
    /\ UNCHANGED << env, roleQueries, accountResponse, totalSearchesLeft, remainingSearches,
                    index, sections, hasAnyPosting, quotaTriggered, quotaMessageSent,
                    searchLog, emails, accountCalls, exit, clock, call >>

\* lines 272-292: the configuration is complete
ConfigAccepted ==
    /\ pc = "config"
    /\ ConfigError(env) = NoError
    /\ roleQueries' = parseRoleQueries(env.ROLE_QUERY)
    /\ pc' = "lookup"
    /\ UNCHANGED << env, accountResponse, totalSearchesLeft, remainingSearches,
                    index, sections, hasAnyPosting, quotaTriggered, quotaMessageSent,
                    searchLog, emails, thrown, accountCalls, exit, clock, call >>

\* lines 293-299: the lookup returns
LookupReturns ==
    /\ pc = "lookup"
    /\ \E outcome \in DeliveryOutcomes :
        LET r == fetchRemainingSearches(resend, senderEmailAddress, toEmailAddress,
                                        accountResponse, outcome, emails)
        IN  /\ r.thrown = NoError
            /\ totalSearchesLeft' = r.value.n
            /\ remainingSearches' = r.value.n
            /\ emails' = r.emails
    /\ pc' = "loop"
    /\ UNCHANGED << roleQueries, accountResponse, index, sections, hasAnyPosting,
                    quotaTriggered, quotaMessageSent, searchLog, thrown >>
    /\ accountCalls' = accountCalls + 1
    /\ UNCHANGED << env, exit, clock, call >>

\* line 293: the lookup throws, and fetchJobs rejects with it
LookupFails ==
    /\ pc = "lookup"
    /\ \E outcome \in DeliveryOutcomes :
        LET r == fetchRemainingSearches(resend, senderEmailAddress, toEmailAddress,
                                        accountResponse, outcome, emails)
        IN  /\ r.thrown # NoError
            /\ thrown' = r.thrown
            /\ emails' = r.emails
    /\ pc' = "done"
    /\ UNCHANGED << roleQueries, accountResponse, totalSearchesLeft, remainingSearches,
                    index, sections, hasAnyPosting, quotaTriggered, quotaMessageSent,
                    searchLog >>
    /\ accountCalls' = accountCalls + 1
    /\ UNCHANGED << env, exit, clock, call >>

\* lines 304-315: the role is skipped
SkipRole ==
    /\ InRoleLoop
    /\ QuotaExhausted(remainingSearches)
    /\ LET role == RoleAt(roleQueries, index)
           isFirstQuotaNotice == IsFirstQuotaNotice(quotaMessageSent)
           details == QuotaNoticeDetails(isFirstQuotaNotice, totalSearchesLeft)
       IN  sections' = Append(sections, formatQuotaSection(role, isFirstQuotaNotice, details))
    /\ quotaTriggered' = TRUE
    /\ quotaMessageSent' = TRUE
    /\ index' = index + 1
    /\ UNCHANGED << pc, roleQueries, accountResponse, totalSearchesLeft, remainingSearches,
                    hasAnyPosting, searchLog, emails, thrown >>
    /\ UNCHANGED << env, accountCalls, exit, clock, call >>

\* lines 317-323: the search returns the role's postings
RoleSearched ==
    /\ InRoleLoop
    /\ ~QuotaExhausted(remainingSearches)
    /\ \E response \in SearchResponses, outcome \in DeliveryOutcomes :
        LET role == RoleAt(roleQueries, index)
            r == fetchRoleResults(role, resend, senderEmailAddress, toEmailAddress,
                                  response, outcome, emails)
        IN  /\ r.thrown = NoError
            /\ searchLog' = Append(searchLog, [role |-> role, response |-> response])
            /\ hasAnyPosting' = (hasAnyPosting \/ Len(r.jobs) > 0)
            /\ sections' = Append(sections, formatRoleSection(role, r.jobs))
            /\ emails' = r.emails
    /\ remainingSearches' = RemainingAfterSearch(remainingSearches)
    /\ index' = index + 1
    /\ UNCHANGED << pc, roleQueries, accountResponse, totalSearchesLeft,
                    quotaTriggered, quotaMessageSent, thrown >>
    /\ UNCHANGED << env, accountCalls, exit, clock, call >>

\* lines 324-331: the search throws the quota-exceeded error
RoleQuotaExceeded ==
    /\ InRoleLoop
    /\ ~QuotaExhausted(remainingSearches)
    /\ \E response \in SearchResponses, outcome \in DeliveryOutcomes :
        LET role == RoleAt(roleQueries, index)
            r == fetchRoleResults(role, resend, senderEmailAddress, toEmailAddress,
                                  response, outcome, emails)
        IN  /\ isQuotaExceededError(r.thrown)
            /\ searchLog' = Append(searchLog, [role |-> role, response |-> response])
            /\ sections' = Append(sections, formatQuotaSection(role, TRUE, r.thrown.message))
            /\ emails' = r.emails
    /\ quotaTriggered' = TRUE
    /\ quotaMessageSent' = TRUE
    /\ remainingSearches' = RemainingAfterQuotaExceeded(remainingSearches)
    /\ index' = index + 1
    /\ UNCHANGED << pc, roleQueries, accountResponse, totalSearchesLeft,
                    hasAnyPosting, thrown >>
    /\ UNCHANGED << env, accountCalls, exit, clock, call >>

\* lines 324-334: the search throws another error, and fetchJobs rejects with it
RoleSearchFails ==
    /\ InRoleLoop
    /\ ~QuotaExhausted(remainingSearches)
    /\ \E response \in SearchResponses, outcome \in DeliveryOutcomes :
        LET role == RoleAt(roleQueries, index)
            r == fetchRoleResults(role, resend, senderEmailAddress, toEmailAddress,
                                  response, outcome, emails)
        IN  /\ r.thrown # NoError
            /\ ~isQuotaExceededError(r.thrown)
            /\ searchLog' = Append(searchLog, [role |-> role, response |-> response])
            /\ thrown' = r.thrown
            /\ emails' = r.emails
    /\ pc' = "done"
    /\ UNCHANGED << roleQueries, accountResponse, totalSearchesLeft, remainingSearches,
                    index, sections, hasAnyPosting, quotaTriggered, quotaMessageSent >>
    /\ UNCHANGED << env, accountCalls, exit, clock, call >>

\* lines 337-340: nothing to report
EndSilently ==
    /\ pc = "loop"
    /\ index >= Len(roleQueries)
    /\ NothingToReport(quotaTriggered, hasAnyPosting)
    /\ pc' = "done"
    /\ UNCHANGED << roleQueries, accountResponse, totalSearchesLeft, remainingSearches,
                    index, sections, hasAnyPosting, quotaTriggered, quotaMessageSent,
                    searchLog, emails, thrown >>
    /\ UNCHANGED << env, accountCalls, exit, clock, call >>

\* lines 342-351: the report is sent
SendReport ==
    /\ pc = "loop"
    /\ index >= Len(roleQueries)
    /\ ~NothingToReport(quotaTriggered, hasAnyPosting)
    /\ \E outcome \in DeliveryOutcomes :
        /\ emails' = Append(emails, Report(sections, outcome))
        /\ thrown' = IF outcome = "rejected" THEN sendError ELSE NoError
    /\ pc' = "done"
    /\ UNCHANGED << roleQueries, accountResponse, totalSearchesLeft, remainingSearches,
                    index, sections, hasAnyPosting, quotaTriggered, quotaMessageSent,
                    searchLog >>
    /\ UNCHANGED << env, accountCalls, exit, clock, call >>

\* lines 354-357: the process ends, with status 1 when fetchJobs rejected
ProcessExit ==
    /\ pc = "done"
    /\ exit = << >>
    /\ exit' = << ExitStatus(thrown) >>
    /\ UNCHANGED << env, pc, roleQueries, accountResponse, totalSearchesLeft,
                    remainingSearches, index, sections, hasAnyPosting, quotaTriggered,
                    quotaMessageSent, searchLog, emails, thrown, accountCalls,
                    clock, call >>

Next ==
    \/ ConfigRejected
    \/ ConfigAccepted
    \/ LookupReturns
    \/ LookupFails
    \/ SkipRole
    \/ RoleSearched
    \/ RoleQuotaExceeded
    \/ RoleSearchFails
    \/ EndSilently
    \/ SendReport
    \/ ProcessExit

Spec == Init /\ [][Next]_vars

SpecAccount == InitAccount /\ [][Next]_vars

-----------------------------------------------------------------------------
(* The pure functions of fetch_jobs.js applied on their own: the argument is    *)
(* drawn in the initial state, and an action appends what the function returns. *)

SeqsUpTo(S, n) == UNION { [1..k -> S] : k \in 0..n }

Call(fn, arg) == [fn |-> fn, arg |-> arg, results |-> << >>]

\* Postings whose titles and companies hold the key's separator, differ by letter
\* case and surrounding white space, and differ in the other fields.
DedupJobs ==
    { Job(<< "a","|","b" >>, << "c" >>, << "T","o","d","a","y" >>, << "u" >>),
      Job(<< "a" >>, << "b","|","c" >>, << "T","o","d","a","y" >>, << "u" >>),
      [Job(<< " ","A"," " >>, << "B","|","C" >>, << "1"," ","h","r" >>, << >>)
          EXCEPT !.location = << "N","Y" >>],
      Job(<< "a" >>, << "c" >>, << "T","o","d","a","y" >>, << "u" >>),
      [Job(<< "A" >>, << "c"," " >>, << "2","0","2","5","-","0","1","-","1","5" >>, << >>)
          EXCEPT !.location = << "N","Y" >>] }

DedupCalls == { Call("removeDuplicates", jobs) : jobs \in SeqsUpTo(DedupJobs, MaxJobs) }

\* " Eng Mgr , , Staff Eng "
RoleQueryExample ==
    << " ","E","n","g"," ","M","g","r"," ",","," ",","," ","S","t","a","f","f"," ","E","n","g"," " >>

ParseCalls ==
    { Call("parseRoleQueries", text) :
        text \in SeqsUpTo({",", " ", "\t", "a"}, MaxQueryLen) \cup {RoleQueryExample} }

TwoDigits(n) == << Digits[(n \div 10) + 1], Digits[(n % 10) + 1] >>

\* The ISO text of a day of January 2025 (counted from 0), alone, with a time of
\* day, and with a time of day in UTC.
IsoDate(day) == << "2","0","2","5","-","0","1","-" >> \o TwoDigits(day + 1)
IsoLocal(day, hour) == IsoDate(day) \o << "T" >> \o TwoDigits(hour) \o << ":","0","0",":","0","0" >>
IsoUtc(day, hour) == IsoLocal(day, hour) \o << "Z" >>

StampDays == 12..16
StampHours == {0, 12, 23}

TodayCalls ==
    { Call("isPostedToday", IsoDate(d)) : d \in StampDays }
    \cup { Call("isPostedToday", IsoLocal(d, h)) : d \in StampDays, h \in StampHours }
    \cup { Call("isPostedToday", IsoUtc(d, h)) : d \in StampDays, h \in StampHours }

\* Every hour of 2025-01-15 (UTC), in every whole-hour zone up to MaxOffset.
Clocks ==
    { [now |-> 14 * 24 + h, offset |-> o] :
        h \in 0..23, o \in (0 - MaxOffset)..MaxOffset }

InitFunctions ==
    /\ Start
    /\ env = OneRoleEnv
    /\ accountResponse = AccountJson(NoJson)
    /\ \/ call \in DedupCalls /\ clock = Noon
       \/ call \in ParseCalls /\ clock = Noon
       \/ call \in TodayCalls /\ clock \in Clocks

program == << env, pc, roleQueries, accountResponse, totalSearchesLeft, remainingSearches,
              index, sections, hasAnyPosting, quotaTriggered, quotaMessageSent,
              searchLog, emails, thrown, accountCalls, exit, clock >>

\* removeDuplicates(jobs), and again on what it returned
CallRemoveDuplicates ==
    /\ call.fn = "removeDuplicates"
    /\ Len(call.results) < MaxApplications
    /\ LET jobs == IF call.results = << >> THEN call.arg
                   ELSE call.results[Len(call.results)]
       IN  call' = [call EXCEPT !.results = Append(@, removeDuplicates(jobs))]
    /\ UNCHANGED program

\* parseRoleQueries(rawRoles)
CallParseRoleQueries ==
    /\ call.fn = "parseRoleQueries"
    /\ call.results = << >>
    /\ call' = [call EXCEPT !.results = << parseRoleQueries(call.arg) >>]
    /\ UNCHANGED program

\* isPostedToday(postedAt)
CallIsPostedToday ==
    /\ call.fn = "isPostedToday"
    /\ call.results = << >>
    /\ call' = [call EXCEPT !.results = << isPostedToday(call.arg) >>]
    /\ UNCHANGED program

NextFunctions ==
    \/ CallRemoveDuplicates
    \/ CallParseRoleQueries
    \/ CallIsPostedToday

SpecFunctions == InitFunctions /\ [][NextFunctions]_vars

-----------------------------------------------------------------------------
(* Vocabulary of the properties *)

FailureNotices == { i \in DOMAIN emails : emails[i].subject = "Daily job fetch failed" }
Reports == { i \in DOMAIN emails : emails[i].subject = "Latest job postings" }

\* The role loop ran to its end (no fatal error before or inside it).
LoopCompleted == pc \in {"loop", "done"} /\ index = Len(roleQueries) /\ roleQueries # << >>

IsTriggeredSection(s) == Len(s) = 3 /\ s[3] = TriggeredLine
IsSkippedSection(s) == Len(s) = 2 /\ s[2] = SkippedLine
TriggeredSections == { i \in DOMAIN sections : IsTriggeredSection(sections[i]) }

\* What the search provider answered, read off the response alone.
AnswersQuotaExceeded(response) ==
    /\ response.transport = "ok"
    /\ \/ response.status = 429
       \/ /\ ResponseOk(response)
          /\ response.body = "json"
          /\ \E word \in { << "q","u","o","t","a" >>, << "l","i","m","i","t" >>,
                           << "e","x","c","e","e","d","e","d" >> } :
                includes(toLowerCase(response.json.error), word)

AnswersPostings(response) ==
    /\ response.transport = "ok"
    /\ ResponseOk(response)
    /\ response.body = "json"
    /\ response.json.error = << >>

AnswersOtherFailure(response) ==
    ~AnswersQuotaExceeded(response) /\ ~AnswersPostings(response)

\* Searches are made for the roles in order, so the k-th call is for the k-th role;
\* a role is affected by the quota when it was skipped or its call hit the quota.
QuotaAffected(i) ==
    \/ i > Len(searchLog)
    \/ AnswersQuotaExceeded(searchLog[i].response)

-----------------------------------------------------------------------------
(* C1..C10 *)

\* C1: a search call is issued only in a state of the role loop where
\* remainingSearches > 0; hence with an integer initial quota q >= 0 the number of
\* search calls of a run never exceeds q, and with q = 0 there is none.
C1_SearchOnlyWithinQuota ==
    /\ [][Len(searchLog') # Len(searchLog) =>
            /\ pc = "loop"
            /\ remainingSearches > 0
            /\ Len(searchLog') = Len(searchLog) + 1]_vars
    /\ [](totalSearchesLeft >= 0 => Len(searchLog) <= totalSearchesLeft)

C1_Witness ==
    /\ pc = "done"
    /\ Len(roleQueries) = 3
    /\ totalSearchesLeft = 2
    /\ Len(searchLog) = 2
    /\ index = 3

\* C2: once the role loop has ended, sections holds exactly one section per role
\* query and the i-th section is the one built for the i-th role, whatever mix of
\* searched, quota-exceeded and skipped roles occurred (and while the loop runs,
\* one section per role handled so far).
C2_OneSectionPerRole ==
    /\ pc = "loop" => Len(sections) = index
    /\ LoopCompleted =>
        /\ Len(sections) = Len(roleQueries)
        /\ \A i \in DOMAIN sections : sections[i][1] = RoleLine(roleQueries[i])

C2_Witness ==
    /\ LoopCompleted
    /\ Len(roleQueries) = 3
    /\ Len(searchLog) = 2
    /\ AnswersPostings(searchLog[1].response)
    /\ IsTriggeredSection(sections[2])
    /\ IsSkippedSection(sections[3])

C4_OneExplanatoryNotice ==
    /\ Cardinality(TriggeredSections) <= 1
    /\ LoopCompleted =>
        /\ (\E i \in DOMAIN roleQueries : QuotaAffected(i)) =>
                Cardinality(TriggeredSections) = 1
        /\ \A i \in DOMAIN roleQueries :
                IF QuotaAffected(i)
                THEN i \notin TriggeredSections => IsSkippedSection(sections[i])
                ELSE ~IsTriggeredSection(sections[i]) /\ ~IsSkippedSection(sections[i])

C4_Witness ==
    /\ LoopCompleted
    /\ Len(roleQueries) = 3
    /\ totalSearchesLeft = 0
    /\ IsTriggeredSection(sections[1])
    /\ IsSkippedSection(sections[2])
    /\ IsSkippedSection(sections[3])

\* The case of C5: the quota q, 1 <= q < number of roles, was used up by q
\* searches that all returned postings lists.
QuotaReachedNaturally ==
    /\ LoopCompleted
    /\ totalSearchesLeft >= 1
    /\ totalSearchesLeft < Len(roleQueries)
    /\ Len(searchLog) = totalSearchesLeft
    /\ \A k \in DOMAIN searchLog : AnswersPostings(searchLog[k].response)

\* C5 as stated: when the quota is reached naturally, every role after the q-th
\* has the plain "skipped" section and no "triggered here" section appears.
C5_AsStated ==
    QuotaReachedNaturally =>
        /\ \A i \in DOMAIN sections : i > totalSearchesLeft => IsSkippedSection(sections[i])
        /\ TriggeredSections = {}

\* C5 as amended: when the quota is reached naturally, the first role after the
\* q-th has the one "triggered here" section, whose explanation is that the
\* account only had q searches and earlier roles of this run used them, and every
\* role after that one has the plain "skipped" section.
C5_NaturalQuotaFirstSkipExplains ==
    QuotaReachedNaturally =>
        LET q == totalSearchesLeft
        IN  /\ TriggeredSections = {q + 1}
            /\ sections[q + 1][2].line =
                 "SerpAPI only had N search(es) available and they were used by earlier roles in this run."
            /\ sections[q + 1][2].n = q
            /\ \A i \in DOMAIN sections : i > q + 1 => IsSkippedSection(sections[i])

C5_Witness ==
    /\ QuotaReachedNaturally
    /\ Len(roleQueries) = 3
    /\ totalSearchesLeft = 1
    /\ IsTriggeredSection(sections[2])
    /\ IsSkippedSection(sections[3])

\* A searched role returned a non-empty list of today's postings.
ReturnedPostings(response) ==
    /\ AnswersPostings(response)
    /\ response.json.is_array
    /\ \E j \in DOMAIN response.json.jobs_results :
            isPostedToday(response.json.jobs_results[j].posted_at)

\* C6: at the end of a run with no fatal error the report email is sent if and
\* only if a quota event occurred for some role (skip or quota exceeded) or some
\* role returned a non-empty list of today's postings; with neither, the delivery
\* collaborator receives no call in that run.
C6_ReportIffSomethingToReport ==
    (pc = "done" /\ LoopCompleted) =>
        LET quotaEvent == \E i \in DOMAIN roleQueries : QuotaAffected(i)
            anyPosting == \E k \in DOMAIN searchLog : ReturnedPostings(searchLog[k].response)
        IN  /\ (Reports # {}) <=> (quotaEvent \/ anyPosting)
            /\ (~quotaEvent /\ ~anyPosting) => emails = << >>

C6_Witness ==
    /\ pc = "done"
    /\ LoopCompleted
    /\ Len(roleQueries) = 2
    /\ Len(searchLog) = 2
    /\ searchLog[1].response.json.jobs_results = << JobOld >>
    /\ searchLog[2].response.json.jobs_results = << JobDatedYesterday >>
    /\ emails = << >>
    /\ thrown = NoError

\* C7: when the search for role i fails with any error other than quota exceeded
\* (transport failure, non-2xx status other than 429, unreadable response body,
\* non-quota provider error), a failure notice is sent, the run aborts, no section
\* is produced for role i or a later role, no search call is made for a later
\* role, and the report email is never sent in that run.
C7_OtherSearchFailureNotifiesAndAborts ==
    \A k \in DOMAIN searchLog :
        AnswersOtherFailure(searchLog[k].response) =>
            /\ k = Len(searchLog)
            /\ pc = "done"
            /\ thrown # NoError
            /\ Cardinality(FailureNotices) = 1
            /\ Len(sections) = k - 1
            /\ index = k - 1
            /\ Reports = {}

\* The ways the account lookup can fail, read off the response alone.
AccountCannotBeRead(response) ==
    \/ response.transport = "error"
    \/ ~ResponseOk(response)
    \/ response.body # "json"
    \/ \A f \in {"total_searches_left", "plan_searches_left", "searches_left"} :
            response.json[f] = JsUndefined

\* C8: for every way fetchRemainingSearches can fail (transport failure,
\* non-success status, a body that cannot be read as JSON, no finite number in the
\* response) a failure-notice send is attempted before the error propagates, and
\* in that run no search call is made and no report email is sent.
C8_LookupFailureNotifies ==
    (AccountCannotBeRead(accountResponse) /\ accountCalls > 0) =>
        /\ pc = "done"
        /\ thrown # NoError
        /\ Cardinality(FailureNotices) = 1
        /\ searchLog = << >>
        /\ Reports = {}

\* A field of the account response holds a finite number: a JSON number, or a
\* string that spells one.
HoldsFiniteNumber(v) ==
    \/ v.type = "number"
    \/ /\ v.type = "string"
       /\ trim(v.chars) # << >>
       /\ NumberIsFinite(StringToNumber(v.chars))

IsPresent(v) == v.type \notin {"undefined", "null"}

\* The first present field, in priority order (JsUndefined when none is).
FirstPresentField(json) ==
    IF IsPresent(json.total_searches_left) THEN json.total_searches_left
    ELSE IF IsPresent(json.plan_searches_left) THEN json.plan_searches_left
    ELSE IF IsPresent(json.searches_left) THEN json.searches_left
    ELSE JsUndefined

\* C9: fetchRemainingSearches returns a count only when the first present of
\* total_searches_left, plan_searches_left, searches_left holds a finite number;
\* when none of the three yields a finite number (each absent, null or
\* non-numeric) it fails, so the run never enters the role loop with a defaulted
\* quota.
C9_NoDefaultQuota ==
    LET json == accountResponse.json
    IN  /\ pc = "loop" => HoldsFiniteNumber(FirstPresentField(json))
        /\ ( /\ accountCalls > 0
             /\ \A f \in {"total_searches_left", "plan_searches_left", "searches_left"} :
                    ~HoldsFiniteNumber(json[f]) )
           => (pc = "done" /\ thrown # NoError /\ index = 0 /\ searchLog = << >>)

RejectedNotices == { i \in FailureNotices : emails[i].outcome = "rejected" }

\* C10: notifySerpFailure never raises: when the delivery of a failure notice
\* fails, the failure is swallowed and the error fetchJobs rejects with is the
\* original lookup or search error, not the delivery's.
C10_NoticeFailureIsSwallowed ==
    (pc = "done" /\ FailureNotices # {}) =>
        /\ thrown # NoError
        /\ thrown # sendError
        /\ \A i \in FailureNotices :
            LET details == emails[i].text
            IN  \/ /\ details.line \in {"SerpAPI account lookup error: ",
                                        "SerpAPI request error for "}
                   /\ thrown = requestError
                \/ /\ details.line = "SerpAPI account endpoint responded with status "
                   /\ thrown = Error([line |-> "SerpAPI account lookup failed with status ",
                                      status |-> details.status])
                \/ /\ details.line = "SerpAPI responded with status "
                   /\ thrown = Error([line |-> "SerpAPI request failed with status ",
                                      status |-> details.status])
                \/ /\ details.line \in {"Unable to determine remaining SerpAPI searches from account response.",
                                        "SerpAPI error for "}
                   /\ thrown = Error(details)

C10_Witness ==
    /\ pc = "done"
    /\ RejectedNotices # {}
    /\ Len(searchLog) = 2
    /\ thrown = requestError

-----------------------------------------------------------------------------
(* C11..C20 *)

RequiredSettings ==
    {"SERPAPI_KEY", "RESEND_API_KEY", "SENDER_EMAIL_ADDRESS", "TO_EMAIL_ADDRESS", "ROLE_QUERY"}

\* A required setting is missing or empty, or the role list has no entry with a
\* character other than white space.
InvalidConfiguration ==
    \/ \E k \in RequiredSettings : env[k] = << >>
    \/ \A i \in DOMAIN env.ROLE_QUERY : env.ROLE_QUERY[i] \in WhiteSpace \cup {","}

\* C11: if any required setting (search key, delivery key, sender, recipient,
\* role list) is missing or empty, or the role list parses to zero non-empty
\* entries, the run fails before any external call: no account lookup, no search
\* call, no failure notice and no report email is issued.
C11_InvalidConfigurationFailsBeforeAnyCall ==
    InvalidConfiguration =>
        /\ pc \in {"config", "done"}
        /\ pc = "done" => thrown # NoError
        /\ accountCalls = 0
        /\ searchLog = << >>
        /\ emails = << >>

C11_Witness ==
    /\ InvalidConfiguration
    /\ env.TO_EMAIL_ADDRESS = << >>
    /\ pc = "done"
    /\ thrown # NoError

\* The run ended in an error nothing recovered from: a configuration error, a
\* failed account lookup (the run ended right after the lookup), a search that
\* failed for another reason than the quota, or a rejected report.
EndedInUnrecoveredError ==
    /\ pc = "done"
    /\ \/ InvalidConfiguration
       \/ accountCalls > 0 /\ index = 0 /\ searchLog = << >>
       \/ searchLog # << >> /\ AnswersOtherFailure(searchLog[Len(searchLog)].response)
       \/ \E i \in Reports : emails[i].outcome = "rejected"

\* C12: the process exits with non-zero status exactly when the run ends in an
\* unrecovered error (configuration error, quota-lookup failure, non-quota search
\* failure, or failure to send the report), and exits zero on every other run,
\* including the silent nothing-to-report path and every run in which the only
\* problem was a quota-exceeded condition.
C12_ExitStatus ==
    exit # << >> =>
        /\ pc = "done"
        /\ exit[1] \in {0, 1}
        /\ exit[1] # 0 <=> EndedInUnrecoveredError
        /\ (LoopCompleted /\ emails = << >>) => exit[1] = 0
        /\ (LoopCompleted /\ \A i \in Reports : emails[i].outcome = "sent") => exit[1] = 0

\* A failed run has exited with status 1.
C12_Witness ==
    /\ exit = << 1 >>
    /\ searchLog # << >>
    /\ AnswersOtherFailure(searchLog[Len(searchLog)].response)

\* The account endpoint answers with q as its first present credit count.
AccountReports(q) ==
    /\ accountResponse.transport = "ok"
    /\ ResponseOk(accountResponse)
    /\ accountResponse.body = "json"
    /\ FirstPresentField(accountResponse.json) = JsNumber(q)

EverySearchSucceeded == \A i \in DOMAIN searchLog : AnswersPostings(searchLog[i].response)

\* The section says the role was skipped because of the quota.
StatesQuotaSkip(s) ==
    \/ IsSkippedSection(s)
    \/ /\ IsTriggeredSection(s)
       /\ s[2].line \in {"SerpAPI search credits are exhausted for today.",
                         "SerpAPI only had N search(es) available and they were used by earlier roles in this run."}

\* C13: if the account reports q credits with 0 <= q < number of roles and every
\* attempted search succeeds, then exactly the first q roles are searched, the
\* remaining roles are skipped, and the report email is always sent (even when no
\* searched role found a posting) with a section for each skipped role stating it
\* was skipped because of the quota.
C13_PartialQuotaRun ==
    \A q \in 0..MaxRoles :
        (accountCalls > 0 /\ AccountReports(q) /\ q < Len(roleQueries)
            /\ EverySearchSucceeded) =>
            /\ Len(searchLog) <= q
            /\ \A i \in DOMAIN searchLog : searchLog[i].role = roleQueries[i]
            /\ pc = "done" =>
                /\ Len(searchLog) = q
                /\ Len(sections) = Len(roleQueries)
                /\ \A i \in (q + 1)..Len(roleQueries) :
                    /\ sections[i][1] = RoleLine(roleQueries[i])
                    /\ StatesQuotaSkip(sections[i])
                /\ Cardinality(Reports) = 1
                /\ \A i \in Reports : emails[i].text = sections

\* One credit, three roles, and the searched role found nothing.
C13_Witness ==
    /\ AccountReports(1)
    /\ Len(roleQueries) = 3
    /\ pc = "done"
    /\ Len(searchLog) = 1
    /\ EverySearchSucceeded
    /\ ~hasAnyPosting
    /\ Reports # {}

SuccessfulSearches == { i \in DOMAIN searchLog : AnswersPostings(searchLog[i].response) }

NoQuotaExceededYet == \A i \in DOMAIN searchLog : ~AnswersQuotaExceeded(searchLog[i].response)

\* The step is a search that succeeded.
SearchSucceedsStep ==
    /\ Len(searchLog') = Len(searchLog) + 1
    /\ AnswersPostings(searchLog'[Len(searchLog')].response)

\* The step skips a role.
SkipStep == index' = index + 1 /\ searchLog' = searchLog

\* C14: each successful per-role search decrements remainingSearches by exactly
\* 1, whether it returned zero or many postings; a skipped role leaves
\* remainingSearches unchanged; so as long as no quota-exceeded response has
\* occurred, remainingSearches equals the initial quota minus the number of
\* successful searches so far.
C14_OneCreditPerSuccessfulSearch ==
    /\ [][SearchSucceedsStep => remainingSearches' = remainingSearches - 1]_vars
    /\ [][SkipStep => remainingSearches' = remainingSearches]_vars
    /\ [](\A q \in (0 - 1)..MaxQuota :
            (accountCalls > 0 /\ AccountReports(q) /\ NoQuotaExceededYet) =>
                remainingSearches = q - Cardinality(SuccessfulSearches))

\* Two searches succeeded, one with postings and one without, and a role was skipped.
C14_Witness ==
    /\ AccountReports(2)
    /\ Cardinality(SuccessfulSearches) = 2
    /\ \E i, j \in SuccessfulSearches :
        /\ Len(sections[i]) = 2 /\ sections[i][2].line = "No new postings published today."
        /\ sections[j][2].line = "Title/Company/Location/Posted/Apply"
    /\ Len(sections) = 3
    /\ remainingSearches = 0

\* removeDuplicates was applied: its argument and what it returned.
Deduplicated == call.fn = "removeDuplicates" /\ call.results # << >>

\* The two postings' titles and companies differ at most by letter case and
\* surrounding white space.
SameTitleAndCompany(a, b) ==
    /\ toLowerCase(trim(a.title)) = toLowerCase(trim(b.title))
    /\ toLowerCase(trim(a.company_name)) = toLowerCase(trim(b.company_name))

\* The entries of jobs at the given positions, in order.
RECURSIVE EntriesAt(_, _)
EntriesAt(jobs, positions) ==
    IF positions = {} THEN << >>
    ELSE LET last == CHOOSE i \in positions : \A j \in positions : j <= i
         IN  Append(EntriesAt(jobs, positions \ {last}), jobs[last])

\* The positions that hold the first occurrence of their key.
FirstOfKey(jobs) ==
    { i \in DOMAIN jobs : \A j \in 1..(i - 1) : DedupKey(jobs[j]) # DedupKey(jobs[i]) }

SamePostingBefore(jobs, i) == \E j \in 1..(i - 1) : SameTitleAndCompany(jobs[j], jobs[i])

\* C18: two postings are treated as duplicates by removeDuplicates if and only
\* if their normalized (trimmed, lowercased) titles are equal and their
\* normalized company names are equal; the separator used to join title and
\* company in the key never makes two postings with different (title, company)
\* pairs share a key, including when a title or company contains the separator
\* character "|".
C18_DuplicatesIffSameTitleAndCompany ==
    Deduplicated =>
        LET input == call.arg
            output == call.results[1]
        IN  /\ output = EntriesAt(input, { i \in DOMAIN input : ~SamePostingBefore(input, i) })
            /\ \A i, j \in DOMAIN input :
                DedupKey(input[i]) = DedupKey(input[j]) =>
                    SameTitleAndCompany(input[i], input[j])

\* parseRoleQueries was applied: its argument and what it returned.
Parsed == call.fn = "parseRoleQueries" /\ call.results # << >>

\* The positions where a comma-separated entry of the text starts, and the
\* position where the entry that starts at a given position ends.
EntryStarts(text) == {1} \cup { i + 1 : i \in { c \in DOMAIN text : text[c] = "," } }
EntryEnd(text, start) ==
    IF \E c \in start..Len(text) : text[c] = ","
    THEN (CHOOSE c \in start..Len(text) :
            text[c] = "," /\ \A b \in start..(c - 1) : text[b] # ",") - 1
    ELSE Len(text)

\* The entry without its leading and trailing white space.
Inner(text, start) ==
    LET end == EntryEnd(text, start)
        inked == { i \in start..end : text[i] \notin WhiteSpace }
    IN  IF inked = {} THEN << >>
        ELSE SubSeq(text, CHOOSE i \in inked : \A j \in inked : i <= j,
                          CHOOSE i \in inked : \A j \in inked : j <= i)

\* The starts of the entries that are not empty after trimming.
KeptStarts(text) == { a \in EntryStarts(text) : Inner(text, a) # << >> }

\* C16: parseRoleQueries returns exactly the comma-separated entries of its
\* input, each trimmed, in input order, with every entry that is empty after
\* trimming discarded (so " Eng Mgr , , Staff Eng " yields ["Eng Mgr",
\* "Staff Eng"]); no returned entry is empty or has leading or trailing
\* whitespace.
C16_ParseRoleQueries ==
    Parsed =>
        LET text == call.arg
            roles == call.results[1]
        IN  /\ Len(roles) = Cardinality(KeptStarts(text))
            /\ \A k \in DOMAIN roles :
                \E a \in KeptStarts(text) :
                    /\ Cardinality({ b \in KeptStarts(text) : b < a }) = k - 1
                    /\ roles[k] = Inner(text, a)
            /\ \A k \in DOMAIN roles :
                /\ roles[k] # << >>
                /\ roles[k][1] \notin WhiteSpace
                /\ roles[k][Len(roles[k])] \notin WhiteSpace
            /\ text = RoleQueryExample =>
                roles = << << "E","n","g"," ","M","g","r" >>,
                           << "S","t","a","f","f"," ","E","n","g" >> >>

\* The example of the claim was parsed.
C16_Witness ==
    /\ Parsed
    /\ call.arg = RoleQueryExample
    /\ Len(call.results[1]) = 2

\* isPostedToday was applied: its argument and what it returned.
AskedWhetherToday == call.fn = "isPostedToday" /\ call.results # << >>

\* Today's date in the process's time zone, as a day of 2025 counted from 0.
Today == (clock.now + clock.offset) \div 24

\* The text is an ISO timestamp with a time of day, written with the given date.
IsStampDated(text, day) ==
    \E h \in 0..23 : text \in { IsoLocal(day, h), IsoUtc(day, h) }

\* C17 as stated: isPostedToday returns true for an exact ISO timestamp whose
\* date equals today's date at any time-of-day, and false for an ISO timestamp
\* dated one day prior, for every process timezone offset and every current time
\* of day.
C17_AsStated ==
    AskedWhetherToday =>
        \A d \in StampDays :
            IsStampDated(call.arg, d) =>
                /\ d = Today => call.results[1]
                /\ d = Today - 1 => ~call.results[1]

\* C17, amended: isPostedToday returns true for an ISO timestamp exactly when the
\* instant it denotes falls on today's date in the process's time zone.  For a
\* timestamp without zone designator that is exactly when its written date is
\* today's, at any time of day, for every offset and current time; for a
\* timestamp in UTC (trailing Z) and for a date alone (midnight UTC) the written
\* date is first shifted by the offset.
C17_TodayInLocalTime ==
    AskedWhetherToday =>
        \A d \in StampDays :
            /\ \A h \in 0..23 :
                /\ call.arg = IsoLocal(d, h) => (call.results[1] <=> d = Today)
                /\ call.arg = IsoUtc(d, h) =>
                    (call.results[1] <=> (d * 24 + h + clock.offset) \div 24 = Today)
            /\ call.arg = IsoDate(d) =>
                (call.results[1] <=> (d * 24 + clock.offset) \div 24 = Today)

\* A timestamp without zone, dated today, late in the evening, west of UTC, while
\* it is already tomorrow in UTC.
C17_Witness ==
    /\ AskedWhetherToday
    /\ clock.offset < 0
    /\ clock.now \div 24 # Today
    /\ call.arg = IsoLocal(Today, 23)
    /\ call.results = << TRUE >>

ExhaustedForToday == "SerpAPI search credits are exhausted for today."
UsedByEarlierRoles ==
    "SerpAPI only had N search(es) available and they were used by earlier roles in this run."

\* C19: when the first skipped role is reached without an earlier quota-exceeded
\* response, its explanatory message is the "credits are exhausted for today"
\* (zero from the start) variant exactly when no search call was made earlier in
\* the run, and the "used by earlier roles in this run" variant exactly when at
\* least one search succeeded earlier in the run, for every finite initial quota
\* value the account lookup can return.
C19_FirstSkipMessageMatchesHistory ==
    LET first == Len(searchLog) + 1
    IN  (NoQuotaExceededYet /\ first \in DOMAIN sections) =>
            /\ IsTriggeredSection(sections[first])
            /\ sections[first][2].line = ExhaustedForToday <=> searchLog = << >>
            /\ sections[first][2].line = UsedByEarlierRoles <=> SuccessfulSearches # {}

\* A section written by the skip branch or by the quota-exceeded catch branch.
IsQuotaSection(s) == IsTriggeredSection(s) \/ IsSkippedSection(s)

\* C20: at every role boundary of the loop in fetchJobs, quotaTriggered equals
\* quotaMessageSent, both flags are sticky (once true they stay true for the rest
\* of the run), quotaTriggered implies remainingSearches <= 0, and
\* remainingSearches never increases; so once any role takes the skip branch,
\* every later role takes it too.
C20_QuotaFlags ==
    /\ [](quotaTriggered = quotaMessageSent)
    /\ [](quotaTriggered => remainingSearches <= 0)
    /\ [][quotaTriggered => quotaTriggered']_vars
    /\ [][quotaMessageSent => quotaMessageSent']_vars
    /\ [][pc = "loop" => remainingSearches' <= remainingSearches]_vars
    /\ [](\A i \in DOMAIN sections :
            IsQuotaSection(sections[i]) =>
                /\ quotaTriggered
                /\ Len(searchLog) <= i
                /\ \A j \in (i + 1)..Len(sections) : IsSkippedSection(sections[j]))

\* A role was searched, the next hit the quota, and the third was skipped.
C20_Witness ==
    /\ pc = "done"
    /\ Len(sections) = 3
    /\ Len(searchLog) = 2
    /\ AnswersQuotaExceeded(searchLog[2].response)
    /\ IsSkippedSection(sections[3])
    /\ quotaTriggered /\ quotaMessageSent
    /\ remainingSearches = 0
    /\ totalSearchesLeft = 3

-----------------------------------------------------------------------------
(* C21 *)

\* C21: in any single run, over every interleaving of lookup, search and
\* delivery outcomes, the delivery collaborator is called at most once in total:
\* either one failure notice (followed by abort) or one final report, never both
\* and never two of either.
C21_AtMostOneDelivery ==
    /\ [](Len(emails) <= 1)
    /\ [](DOMAIN emails = FailureNotices \cup Reports)
    /\ [](FailureNotices # {} => (pc = "done" /\ thrown # NoError /\ Reports = {}))
    /\ [](Reports # {} => (pc = "done" /\ LoopCompleted /\ FailureNotices = {}))
    /\ [][emails # << >> => emails' = emails]_vars

\* Two searches returned, the third failed for another reason than the quota, and
\* the one delivery of the run is the failure notice.
C21_Witness ==
    /\ pc = "done"
    /\ Len(searchLog) = 3
    /\ AnswersOtherFailure(searchLog[3].response)
    /\ Len(emails) = 1
    /\ FailureNotices = {1}
    /\ exit = << 1 >>

=============================================================================
